---- MODULE Spec2Model ----
(***************************************************************************)
(* ETF Performance Dashboard (streamlit_app.py): the paginated fetch loop, *)
(* the normalization of the fetched rows into a table, the session state   *)
(* that holds the table, and the top/bottom views derived from it.         *)
(*                                                                         *)
(* Text is modelled as a sequence of one-character strings, so that the    *)
(* column renaming and the numeric parsing are computed character by       *)
(* character.  Numbers are integers.                                       *)
(***************************************************************************)
EXTENDS Integers, Sequences, FiniteSets, TLC

VARIABLES
    etf_data,     \* st.session_state.etf_data: Absent, None or a DataFrame
    pc,           \* where the current script run is, or how the last one ended
    metric,       \* value of the "Select Performance Metric" selectbox
    top_n,        \* the "Top/Bottom N ETFs" slider widget: its arguments and value
    filters,      \* the four range sliders of the sidebar: arguments and value
    top_df,       \* the top view of the last run: the index labels of its rows,
                  \* in order (None when the run did not compute it)
    under_df,     \* the bottom view of the last run, likewise
    shown,        \* the two filtered views handed to st.dataframe and
                  \* st.bar_chart, likewise
    it,           \* number of offsets of range(0, total_results, count) consumed
    requests,     \* offsets posted to the endpoint by the current fetch, in order
    failed,       \* offsets reported by st.error in the current fetch, in order
    all_data,     \* the list all_data of fetch_etf_data
    df,           \* the DataFrame df of fetch_etf_data
    server,       \* the endpoint: the funds it has to offer, in its sort order
    up,           \* the endpoint: TRUE when it answers 200
    flips,        \* how often the endpoint may still change between up and down
    fetches,      \* fetch cycles started in this session
    moves,        \* widget interactions (other than the button) in this session
    writes        \* assignments to st.session_state.etf_data by the current run

vars == << etf_data, pc, metric, top_n, filters, top_df, under_df, shown, it,
           requests, failed, all_data, df, server, up, flips, fetches, moves, writes >>

-----------------------------------------------------------------------------
(* Bounds of the model.                                                    *)

\* Number of funds the endpoint has to offer.
ServerTotal == 271
\* The endpoint changes between answering 200 and failing at most so often
\* in a session.
MaxFlips == 1
\* Fetch cycles per session.
MaxFetches == 2
\* Widget interactions per session.
MaxMoves == 1
\* Largest result set of the endpoint in SpecNorm.
MaxRows == 2
\* Largest total and largest page size for which range() is compared with the
\* closed form of its length.
MaxTotal == 45
MaxPageSize == 7

-----------------------------------------------------------------------------
(* Constants of the program.                                               *)

total_results == 271
count == 20
StatusOK == 200
SliderMin == 10
SliderDefault == 50
MetricDefaultIndex == 3

-----------------------------------------------------------------------------
(* Values: JSON values of the response, cells of a DataFrame.              *)

None == [t |-> "none"]
NaN == [t |-> "nan"]
Absent == [t |-> "absent"]
Num(n) == [t |-> "num", n |-> n]
Str(s) == [t |-> "str", s |-> s]

IsNum(v) == v.t = "num"
\* pandas isna(): None and NaN are the missing values.
isna(v) == v.t \in {"none", "nan"}

\* dict.get(key, default)
Get(d, key, default) == IF key \in DOMAIN d THEN d[key] ELSE default

RECURSIVE FoldSeq(_, _, _)
\* Left fold of Op over the sequence s, starting from acc.
FoldSeq(Op(_, _), acc, s) ==
    IF s = << >> THEN acc ELSE FoldSeq(Op, Op(acc, Head(s)), Tail(s))

Max2(a, b) == IF a >= b THEN a ELSE b
Min2(a, b) == IF a <= b THEN a ELSE b

-----------------------------------------------------------------------------
(* Text.                                                                   *)

Whitespace == {" "}
Digits == << "0", "1", "2", "3", "4", "5", "6", "7", "8", "9" >>
IsDigit(c) == \E i \in 1..Len(Digits) : Digits[i] = c
DigitVal(c) == (CHOOSE i \in 1..Len(Digits) : Digits[i] = c) - 1

\* str.strip()
Strip(s) ==
    LET keep == {i \in 1..Len(s) : s[i] \notin Whitespace}
    IN  IF keep = {} THEN << >>
        ELSE LET lo == CHOOSE i \in keep : \A j \in keep : i <= j
                 hi == CHOOSE i \in keep : \A j \in keep : i >= j
             IN  SubSeq(s, lo, hi)

\* str.replace(old, new) for a one-character old
Replace(s, old, new) ==
    LET step(acc, c) == IF c = old THEN acc \o new ELSE Append(acc, c)
    IN  FoldSeq(step, << >>, s)

\* The number a text parses to: NaN unless it is a non-empty run of digits,
\* possibly signed.
ParseNumber(s) ==
    LET body == IF s # << >> /\ Head(s) = "-" THEN Tail(s) ELSE s
        step(acc, c) == acc * 10 + DigitVal(c)
    IN  IF body = << >> \/ \E i \in 1..Len(body) : ~IsDigit(body[i])
        THEN NaN
        ELSE IF body = s THEN Num(FoldSeq(step, 0, body))
             ELSE Num(0 - FoldSeq(step, 0, body))

-----------------------------------------------------------------------------
(* The endpoint.  It holds a list of funds, sorted by market               *)
(* capitalisation, and answers a page request with the slice of at most    *)
(* count of them that starts at the requested offset, or, when it is down, *)
(* with an error status.                                                   *)

Without(d, key) == [k \in DOMAIN d \ {key} |-> d[k]]

FundName(k) == << "E", "T", "F", Digits[((k \div 10) % 10) + 1], Digits[(k % 10) + 1] >>

FundRatios(k) ==
    ("subindustry" :> Str(<< "E", "_", "Q" >>)) @@
    ("mrktCapf" :> Num(5000 - 10 * k)) @@
    ("lastPrice" :> Num(100 + (k % 7))) @@
    ("pr1d" :> Num((k % 3) - 1)) @@
    ("4wpct" :> Num(((k * 7) % 11) - 5)) @@
    ("26wpct" :> Num(((k * 37) % 101) - 50)) @@
    ("52wpct" :> Num(((k * 100) % 271) - 135)) @@
    ("12mVolN" :> Num((k % 5) + 1)) @@
    ("expenseRatio" :> Num((k % 4) + 1))

FundInfo(k) == ("name" :> Str(FundName(k)))

Stock(info, ratios) == ("stock" :> (("info" :> info) @@ ("advancedRatios" :> ratios)))

\* The k-th fund of the endpoint's result set (k from 0).  Most funds are
\* complete; in every twenty, some have a field absent, null or not numeric.
ServerItem(k) ==
    LET b == IF k % 20 = 19 THEN k - 1 ELSE k
        f == b % 20
        info == FundInfo(b)
        ratios == FundRatios(b)
    IN  CASE f = 3  -> Stock(info, Without(ratios, "mrktCapf"))
          [] f = 5  -> Stock(info, [ratios EXCEPT !["pr1d"] = None])
          [] f = 7  -> Stock(info, [ratios EXCEPT !["expenseRatio"] = Str(<< "N", "A" >>)])
          [] f = 9  -> Stock(info, [ratios EXCEPT !["lastPrice"] = Str(<< "1", "2" >>)])
          [] f = 11 -> Stock([info EXCEPT !["name"] = None], ratios)
          [] f = 13 -> Stock(Without(info, "name"), ratios)
          [] f = 15 -> Stock(info, [ratios EXCEPT !["subindustry"] = None])
          [] f = 16 -> [k0 \in {} |-> None]
          [] f = 17 -> ("stock" :> ("info" :> info))
          [] f = 18 -> ("stock" :> ("advancedRatios" :> ratios))
          [] OTHER  -> Stock(info, ratios)

\* The funds of the endpoint in Spec.
FundList == [i \in 1..ServerTotal |-> ServerItem(i - 1)]

\* The page of the result set `funds` that starts at `offset`.
ServerPage(funds, offset) ==
    SubSeq(funds, offset + 1, Min2(offset + count, Len(funds)))

\* requests.post(URL, headers=HEADERS, data=json.dumps(payload)) with
\* payload["offset"] = offset: the response.
Post(funds, offset, isUp) ==
    IF isUp
    THEN [status_code |-> 200,
          json |-> ("data" :> ("results" :> ServerPage(funds, offset)))]
    ELSE [status_code |-> 503, json |-> [k0 \in {} |-> None]]

-----------------------------------------------------------------------------
(* fetch_etf_data: the requests and the rows.                              *)

EmptyDict == [k0 \in {} |-> None]

\* A range that takes its stop value too.
range_closed(start, stop, step) ==
    LET n == Cardinality({i \in 0..stop : start + i * step <= stop})
    IN  [i \in 1..n |-> start + (i - 1) * step]

\* list(range(start, stop, step)) for step >= 1: start, start + step, ... as
\* long as the value is below stop.
range(start, stop, step) ==
    LET n == Cardinality({i \in 0..stop : start + i * step < stop})
    IN  [i \in 1..n |-> start + (i - 1) * step]

\* list(range(0, total_results, count))
Offsets == range(0, total_results, count)

RowKeys ==
    << <<"N", "a", "m", "e">>,
       <<"S", "u", "b", "-", "S", "e", "c", "t", "o", "r">>,
       <<"↓", "M", "a", "r", "k", "e", "t", " ", "C", "a", "p">>,
       <<"C", "l", "o", "s", "e", " ", "P", "r", "i", "c", "e">>,
       <<"1", "D", " ", "R", "e", "t", "u", "r", "n">>,
       <<"1", "M", " ", "R", "e", "t", "u", "r", "n">>,
       <<"6", "M", " ", "R", "e", "t", "u", "r", "n">>,
       <<"1", "Y", " ", "R", "e", "t", "u", "r", "n">>,
       <<"V", "o", "l", "a", "t", "i", "l", "i", "t", "y", " ", "v", "s", " ", "N", "i", "f", "t", "y">>,
       <<"E", "x", "p", "e", "n", "s", "e", " ", "R", "a", "t", "i", "o">> >>

NA == Str(<< "N", "A" >>)

\* A row extraction whose numeric fields default to null, not to "NA".
ExtractRowNullDefault(item) ==
    LET stock_info == Get(item, "stock", EmptyDict)
        ratios == Get(stock_info, "advancedRatios", EmptyDict)
        info == Get(stock_info, "info", EmptyDict)
    IN  << Get(info, "name", Str(<< >>)),
           Get(ratios, "subindustry", Str(<< >>)),
           Get(ratios, "mrktCapf", None),
           Get(ratios, "lastPrice", None),
           Get(ratios, "pr1d", None),
           Get(ratios, "4wpct", None),
           Get(ratios, "26wpct", None),
           Get(ratios, "52wpct", None),
           Get(ratios, "12mVolN", None),
           Get(ratios, "expenseRatio", None) >>

\* The dict row built from one item of the results: its values, in the order
\* of RowKeys.
ExtractRow(item) ==
    LET stock_info == Get(item, "stock", EmptyDict)
        ratios == Get(stock_info, "advancedRatios", EmptyDict)
        info == Get(stock_info, "info", EmptyDict)
    IN  << Get(info, "name", Str(<< >>)),
           Get(ratios, "subindustry", Str(<< >>)),
           Get(ratios, "mrktCapf", NA),
           Get(ratios, "lastPrice", NA),
           Get(ratios, "pr1d", NA),
           Get(ratios, "4wpct", NA),
           Get(ratios, "26wpct", NA),
           Get(ratios, "52wpct", NA),
           Get(ratios, "12mVolN", NA),
           Get(ratios, "expenseRatio", NA) >>

\* The body of the for loop for one response: the rows appended to all_data.
PageRows(response) ==
    IF response.status_code = StatusOK
    THEN LET results == Get(Get(response.json, "data", EmptyDict), "results", << >>)
         IN  [i \in 1..Len(results) |-> ExtractRow(results[i])]
    ELSE << >>

-----------------------------------------------------------------------------
(* fetch_etf_data: the DataFrame.  A frame is its column labels and its    *)
(* rows; a row is its index label idx and its cells v, one per column.     *)

\* pd.DataFrame(all_data)
DataFrame(data) ==
    [columns |-> IF data = << >> THEN << >> ELSE RowKeys,
     rows |-> [i \in 1..Len(data) |-> [idx |-> i - 1, v |-> data[i]]]]

\* A completeness test that looks at the numeric cells only, as
\* dropna(subset=numeric columns) would.
RowCompleteNumeric(r) == \A c \in 3..Len(r.v) : ~isna(r.v[c])

\* A row that dropna keeps: none of its cells is missing.
RowComplete(r) == \A c \in 1..Len(r.v) : ~isna(r.v[c])

\* df.dropna(): the rows without a missing cell, index labels kept.
dropna(frame) == [frame EXCEPT !.rows = SelectSeq(frame.rows, RowComplete)]

\* columns.str.strip().str.replace('↓', '').str.replace(' ', '_')
RenameColumn(c) == Replace(Replace(Strip(c), "↓", << >>), " ", << "_" >>)

RenameColumns(frame) ==
    [frame EXCEPT !.columns = [i \in 1..Len(frame.columns) |-> RenameColumn(frame.columns[i])]]

numeric_cols ==
    << <<"M", "a", "r", "k", "e", "t", "_", "C", "a", "p">>,
       <<"C", "l", "o", "s", "e", "_", "P", "r", "i", "c", "e">>,
       <<"1", "D", "_", "R", "e", "t", "u", "r", "n">>,
       <<"1", "M", "_", "R", "e", "t", "u", "r", "n">>,
       <<"6", "M", "_", "R", "e", "t", "u", "r", "n">>,
       <<"1", "Y", "_", "R", "e", "t", "u", "r", "n">>,
       <<"V", "o", "l", "a", "t", "i", "l", "i", "t", "y", "_", "v", "s", "_", "N", "i", "f", "t", "y">>,
       <<"E", "x", "p", "e", "n", "s", "e", "_", "R", "a", "t", "i", "o">> >>

HasColumn(frame, col) == \E c \in 1..Len(frame.columns) : frame.columns[c] = col
\* Position of the column labelled col.
ColPos(frame, col) == CHOOSE c \in 1..Len(frame.columns) : frame.columns[c] = col

\* pd.to_numeric(value, errors='ignore') on one cell: what does not parse is
\* left as it is.
to_numeric_ignore(v) ==
    CASE v.t = "num" -> v
      [] v.t = "str" -> IF IsNum(ParseNumber(v.s)) THEN ParseNumber(v.s) ELSE v
      [] OTHER -> NaN

\* pd.to_numeric(value, errors='coerce') on one cell
to_numeric(v) ==
    CASE v.t = "num" -> v
      [] v.t = "str" -> ParseNumber(v.s)
      [] OTHER -> NaN

\* df[col] = pd.to_numeric(df[col], errors='coerce')
CoerceColumn(frame, col) ==
    LET c == ColPos(frame, col)
    IN  [frame EXCEPT !.rows =
            [i \in 1..Len(frame.rows) |->
                [frame.rows[i] EXCEPT !.v[c] = to_numeric(frame.rows[i].v[c])]]]

\* The loop over numeric_cols.
CoerceNumeric(frame) == FoldSeq(CoerceColumn, frame, numeric_cols)

\* df[col] raises KeyError for a label that is no column.
CoerceRaises(frame) == \E i \in 1..Len(numeric_cols) : ~HasColumn(frame, numeric_cols[i])

-----------------------------------------------------------------------------
(* The views: lines 94-149.                                                *)

MetricLabels == << "1 Day Return", "30 Day Return", "6 Month Return", "1 Year Return" >>

metric_map(label) ==
    CASE label = "1 Day Return"   -> <<"1", "D", "_", "R", "e", "t", "u", "r", "n">>
      [] label = "30 Day Return"  -> <<"1", "M", "_", "R", "e", "t", "u", "r", "n">>
      [] label = "6 Month Return" -> <<"6", "M", "_", "R", "e", "t", "u", "r", "n">>
      [] label = "1 Year Return"  -> <<"1", "Y", "_", "R", "e", "t", "u", "r", "n">>

col_Expense_Ratio == <<"E", "x", "p", "e", "n", "s", "e", "_", "R", "a", "t", "i", "o">>
col_Market_Cap == <<"M", "a", "r", "k", "e", "t", "_", "C", "a", "p">>

\* st.slider(label, min_value, max_value, value) with a single value: the
\* bounds the widget ends up with.  Streamlit makes sure that
\* min <= value <= max by moving the bounds, not the value.
SliderBounds(min_value, max_value, value) ==
    LET lo == Min2(min_value, max_value)
        hi == Max2(lo, max_value)
    IN  [lo |-> Min2(value, lo), hi |-> Max2(value, hi)]

\* The order in which a sort leaves rows of equal key is not fixed by the
\* program (sort_values uses quicksort): they stay in their order ("keep")
\* or come out reversed ("reverse").
TieOrders == {"keep", "reverse"}

\* The place of row i of n rows in the sort: rows are ordered by key, upwards
\* or downwards, and rows of equal key by their position i, kept or reversed.
SortKey(key, i, n, ascending, ties) ==
    (IF ascending THEN key ELSE 0 - key) * (n + 1) + (IF ties = "keep" THEN i ELSE 0 - i)

\* A sort that always sorts upwards, whatever `ascending` says.
sort_values_upwards(frame, col, ascending, ties) ==
    LET rows == frame.rows
        n == Len(rows)
        c == ColPos(frame, col)
        keys == SubSeq([i \in 1..n |-> SortKey(rows[i].v[c].n, i, n, TRUE, ties)], 1, n)
        rank == SubSeq([i \in 1..n |-> Cardinality({j \in 1..n : keys[j] < keys[i]}) + 1], 1, n)
    IN  [frame EXCEPT !.rows = [p \in 1..n |-> rows[CHOOSE i \in 1..n : rank[i] = p]]]

\* df.sort_values(by=col, ascending=ascending)
sort_values(frame, col, ascending, ties) ==
    LET rows == frame.rows
        n == Len(rows)
        c == ColPos(frame, col)
        keys == SubSeq([i \in 1..n |-> SortKey(rows[i].v[c].n, i, n, ascending, ties)], 1, n)
        rank == SubSeq([i \in 1..n |-> Cardinality({j \in 1..n : keys[j] < keys[i]}) + 1], 1, n)
    IN  [frame EXCEPT !.rows = [p \in 1..n |-> rows[CHOOSE i \in 1..n : rank[i] = p]]]

\* df.head(n)
head(frame, n) == [frame EXCEPT !.rows = SubSeq(frame.rows, 1, Min2(n, Len(frame.rows)))]

RECURSIVE RangeMin(_, _, _, _)
\* The least number in column c of rows[lo..hi].
RangeMin(rows, c, lo, hi) ==
    IF lo = hi THEN rows[lo].v[c].n
    ELSE LET mid == (lo + hi) \div 2
             a == RangeMin(rows, c, lo, mid)
             b == RangeMin(rows, c, mid + 1, hi)
         IN  IF a <= b THEN a ELSE b

RECURSIVE RangeMax(_, _, _, _)
\* The greatest number in column c of rows[lo..hi].
RangeMax(rows, c, lo, hi) ==
    IF lo = hi THEN rows[lo].v[c].n
    ELSE LET mid == (lo + hi) \div 2
             a == RangeMax(rows, c, lo, mid)
             b == RangeMax(rows, c, mid + 1, hi)
         IN  IF a >= b THEN a ELSE b

\* float(view[col].min()): NaN for an empty view
ColMin(frame, col) ==
    IF frame.rows = << >> THEN NaN
    ELSE Num(RangeMin(frame.rows, ColPos(frame, col), 1, Len(frame.rows)))

\* float(view[col].max()): NaN for an empty view
ColMax(frame, col) ==
    IF frame.rows = << >> THEN NaN
    ELSE Num(RangeMax(frame.rows, ColPos(frame, col), 1, Len(frame.rows)))

\* a <= b on floats: FALSE when either is NaN
Leq(a, b) == IsNum(a) /\ IsNum(b) /\ a.n <= b.n

\* view[(view[E] >= e[0]) & (view[E] <= e[1]) & (view[M] >= m[0]) & (view[M] <= m[1])]
Restrict(view, expense, mcap) ==
    LET ce == ColPos(view, col_Expense_Ratio)
        cm == ColPos(view, col_Market_Cap)
        keep(r) == /\ Leq(expense[1], r.v[ce]) /\ Leq(r.v[ce], expense[2])
                   /\ Leq(mcap[1], r.v[cm]) /\ Leq(r.v[cm], mcap[2])
    IN  [view EXCEPT !.rows = SelectSeq(view.rows, keep)]

FilterNames == {"top_expense", "top_mcap", "under_expense", "under_mcap"}

\* A widget keeps the value the user gave it as long as it is called with the
\* same arguments; called with other arguments it is a new widget and holds
\* its default.
WidgetValue(widget, args, default) ==
    IF widget # None /\ widget.args = args THEN widget.value ELSE default

\* The "Top/Bottom N ETFs" slider of line 107.
TopNWidget(widget, table) ==
    LET args == << SliderMin, Len(table.rows), SliderDefault >>
    IN  [args |-> args, value |-> WidgetValue(widget, args, SliderDefault)]

\* A range slider of lines 119-122 and 138-141 over column col of view.
RangeWidget(widget, view, col) ==
    LET args == << ColMin(view, col), ColMax(view, col) >>
    IN  [args |-> args, value |-> WidgetValue(widget, args, args)]

FilterWidget(old, f) == IF old = None THEN None ELSE old[f]

\* Lines 107-149: what a script run computes from the table sorted downwards
\* and upwards by the active metric, given the widgets as the user left them.
Views(table, sortedDown, sortedUp, nWidget, fWidgets) ==
    LET slider == TopNWidget(nWidget, table)
        top == head(sortedDown, slider.value)
        under == head(sortedUp, slider.value)
        te == RangeWidget(FilterWidget(fWidgets, "top_expense"), top, col_Expense_Ratio)
        tm == RangeWidget(FilterWidget(fWidgets, "top_mcap"), top, col_Market_Cap)
        ue == RangeWidget(FilterWidget(fWidgets, "under_expense"), under, col_Expense_Ratio)
        um == RangeWidget(FilterWidget(fWidgets, "under_mcap"), under, col_Market_Cap)
    IN  [top_n |-> slider,
         top_df |-> top,
         under_df |-> under,
         filters |-> [f \in FilterNames |->
                        CASE f = "top_expense" -> te
                          [] f = "top_mcap" -> tm
                          [] f = "under_expense" -> ue
                          [] f = "under_mcap" -> um],
         shown |-> [top |-> Restrict(top, te.value, tm.value),
                    under |-> Restrict(under, ue.value, um.value)]]

-----------------------------------------------------------------------------
(* The session.  Streamlit runs the script from top to bottom when the     *)
(* page is opened and again on every interaction with a widget.            *)

Init ==
    /\ etf_data = Absent
    /\ pc = "new"
    /\ metric = MetricLabels[MetricDefaultIndex + 1]
    /\ top_n = None
    /\ filters = None
    /\ top_df = None
    /\ under_df = None
    /\ shown = None
    /\ it = 0
    /\ requests = << >>
    /\ failed = << >>
    /\ all_data = << >>
    /\ df = None
    /\ server = FundList
    /\ up \in BOOLEAN
    /\ flips = MaxFlips
    /\ fetches = 0
    /\ moves = 0
    /\ writes = 0

fetch_vars == << it, requests, failed, all_data, df >>
env_vars == << server, up, flips >>
view_vars == << top_n, filters, top_df, under_df, shown >>

\* frame.index: the index labels of the rows, in order.
Labels(frame) == [i \in 1..Len(frame.rows) |-> frame.rows[i].idx]

\* Lines 94-149 of a run, on the stored table `table`.  Each of the two sorts
\* leaves rows of equal key in one of the orders of TieOrders.
RenderViews(table, label, nWidget, fWidgets) ==
    \E sortedDown \in {sort_values(table, metric_map(label), FALSE, t) : t \in TieOrders} :
    \E sortedUp \in {sort_values(table, metric_map(label), TRUE, t) : t \in TieOrders} :
    \E v \in {Views(table, sortedDown, sortedUp, nWidget, fWidgets)} :
        /\ top_n' = v.top_n
        /\ filters' = v.filters
        /\ top_df' = Labels(v.top_df)
        /\ under_df' = Labels(v.under_df)
        /\ shown' = [top |-> Labels(v.shown.top), under |-> Labels(v.shown.under)]
        /\ pc' = "rendered"

\* The page is opened: the first run.  Lines 81-82 create the session entry,
\* the button was not pressed, lines 90-92 warn and stop.
OpenPage ==
    /\ pc = "new"
    /\ etf_data = Absent
    /\ etf_data' = None
    /\ pc' = "stopped"
    /\ UNCHANGED << metric, view_vars, fetch_vars, env_vars, fetches, moves, writes >>

\* A pressing of the button that clears the stored table before it fetches.
ClickFetchClears ==
    /\ pc \in {"stopped", "rendered", "raised"}
    /\ fetches < MaxFetches
    /\ fetches' = fetches + 1
    /\ pc' = "request"
    /\ etf_data' = None
    /\ it' = 0
    /\ requests' = << >>
    /\ failed' = << >>
    /\ all_data' = << >>
    /\ df' = None
    /\ top_df' = None
    /\ under_df' = None
    /\ shown' = None
    /\ writes' = 0
    /\ UNCHANGED << metric, top_n, filters, env_vars, moves >>

\* The button is pressed: a new run starts and enters fetch_etf_data (line 86).
ClickFetch ==
    /\ pc \in {"stopped", "rendered", "raised"}
    /\ fetches < MaxFetches
    /\ fetches' = fetches + 1
    /\ pc' = "request"
    /\ it' = 0
    /\ requests' = << >>
    /\ failed' = << >>
    /\ all_data' = << >>
    /\ df' = None
    /\ top_df' = None
    /\ under_df' = None
    /\ shown' = None
    /\ writes' = 0
    /\ UNCHANGED << etf_data, metric, top_n, filters, env_vars, moves >>

\* An iteration that leaves the loop when the response is not a success.
RequestStopOnError ==
    /\ pc = "request"
    /\ it < Len(Offsets)
    /\ \E flip \in BOOLEAN :
        /\ flip => flips > 0
        /\ up' = IF flip THEN ~up ELSE up
        /\ flips' = IF flip THEN flips - 1 ELSE flips
        /\ \E offset \in {Offsets[it + 1]} : \E response \in {Post(server, offset, up')} :
               /\ requests' = Append(requests, offset)
               /\ all_data' = all_data \o PageRows(response)
               /\ failed' = IF response.status_code = StatusOK
                            THEN failed ELSE Append(failed, offset)
               /\ it' = IF response.status_code = StatusOK THEN it + 1 ELSE Len(Offsets)
    /\ UNCHANGED << etf_data, pc, metric, view_vars, df, server, fetches, moves, writes >>

\* One iteration of the for loop (lines 37-64).  The endpoint may have gone
\* down or come back since the last request.
Request ==
    /\ pc = "request"
    /\ it < Len(Offsets)
    /\ \E flip \in BOOLEAN :
        /\ flip => flips > 0
        /\ up' = IF flip THEN ~up ELSE up
        /\ flips' = IF flip THEN flips - 1 ELSE flips
        /\ \E offset \in {Offsets[it + 1]} : \E response \in {Post(server, offset, up')} :
               /\ requests' = Append(requests, offset)
               /\ all_data' = all_data \o PageRows(response)
               /\ failed' = IF response.status_code = StatusOK
                            THEN failed ELSE Append(failed, offset)
    /\ it' = it + 1
    /\ UNCHANGED << etf_data, pc, metric, view_vars, df, server, fetches, moves, writes >>

\* Line 66, once the loop has run out of offsets.
BuildFrame ==
    /\ pc = "request"
    /\ it = Len(Offsets)
    /\ df' = DataFrame(all_data)
    /\ pc' = "dropna"
    /\ UNCHANGED << etf_data, metric, view_vars, it, requests, failed, all_data,
                    env_vars, fetches, moves, writes >>

\* Line 67.
DropMissing ==
    /\ pc = "dropna"
    /\ df' = dropna(df)
    /\ pc' = "rename"
    /\ UNCHANGED << etf_data, metric, view_vars, it, requests, failed, all_data,
                    env_vars, fetches, moves, writes >>

\* Line 68.  A frame built from no rows has a RangeIndex for its columns, on
\* which pandas 2 refuses the .str accessor (AttributeError); pandas 1 gives it
\* an empty object Index and goes on.
Rename ==
    /\ pc = "rename"
    /\ df' = RenameColumns(df)
    /\ pc' \in (IF df.columns = << >> THEN {"raised", "coerce"} ELSE {"coerce"})
    /\ UNCHANGED << etf_data, metric, view_vars, it, requests, failed, all_data,
                    env_vars, fetches, moves, writes >>

\* Lines 69-74.  df[col] raises KeyError when the frame has no such column;
\* the exception leaves fetch_etf_data and ends the run.
Coerce ==
    /\ pc = "coerce"
    /\ IF CoerceRaises(df)
       THEN pc' = "raised" /\ df' = df
       ELSE pc' = "dropna2" /\ df' = CoerceNumeric(df)
    /\ UNCHANGED << etf_data, metric, view_vars, it, requests, failed, all_data,
                    env_vars, fetches, moves, writes >>

\* Line 75.
DropUnparsed ==
    /\ pc = "dropna2"
    /\ df' = dropna(df)
    /\ pc' = "return"
    /\ UNCHANGED << etf_data, metric, view_vars, it, requests, failed, all_data,
                    env_vars, fetches, moves, writes >>

\* Line 76 returns df, line 86 stores it, and the run goes on to the views.
Store ==
    /\ pc = "return"
    /\ etf_data' = df
    /\ writes' = writes + 1
    /\ RenderViews(df, metric, top_n, filters)
    /\ UNCHANGED << metric, fetch_vars, env_vars, fetches, moves >>

\* Values the user drags the N slider to: its ends, the whole table, and the
\* largest N with more than 2N rows in the table.
TopNPicks(widget) ==
    LET b == SliderBounds(widget.args[1], widget.args[2], widget.args[3])
        size == widget.args[2]
    IN  {n \in {b.lo, b.hi, size, (size - 1) \div 2} : b.lo <= n /\ n <= b.hi}

\* Ranges the user drags a range slider to: its lower end alone, or all of it.
RangePicks(widget) ==
    LET lo == widget.args[1]
        hi == widget.args[2]
    IN  IF IsNum(lo) THEN {<< lo, lo >>, << lo, hi >>} ELSE {}

\* A run without the button pressed, on a session that has a table.
Rerun(label, nWidget, fWidgets) ==
    /\ moves < MaxMoves
    /\ moves' = moves + 1
    /\ metric' = label
    /\ RenderViews(etf_data, label, nWidget, fWidgets)
    /\ UNCHANGED << etf_data, fetch_vars, env_vars, fetches, writes >>

\* The user picks another metric in the selectbox.
SelectMetric ==
    /\ pc = "rendered"
    /\ \E i \in 1..Len(MetricLabels) :
        /\ MetricLabels[i] # metric
        /\ Rerun(MetricLabels[i], top_n, filters)

\* The user moves the N slider.
MoveTopN ==
    /\ pc = "rendered"
    /\ \E n \in TopNPicks(top_n) :
        /\ n # top_n.value
        /\ Rerun(metric, [top_n EXCEPT !.value = n], filters)

\* The user moves one of the four range sliders.
MoveFilter ==
    /\ pc = "rendered"
    /\ \E f \in FilterNames : \E r \in RangePicks(filters[f]) :
        /\ r # filters[f].value
        /\ Rerun(metric, top_n, [filters EXCEPT ![f].value = r])

Next ==
    \/ OpenPage
    \/ ClickFetch
    \/ Request
    \/ BuildFrame
    \/ DropMissing
    \/ Rename
    \/ Coerce
    \/ DropUnparsed
    \/ Store
    \/ SelectMetric
    \/ MoveTopN
    \/ MoveFilter

Spec == Init /\ [][Next]_vars

-----------------------------------------------------------------------------
(* One fetch cycle over every small result set.  The endpoint answers every *)
(* request; what varies is what it holds: up to MaxRows funds, each of them *)
(* complete or with one of the fields absent, null or not numeric.          *)

RatioKeys ==
    << "mrktCapf", "lastPrice", "pr1d", "4wpct", "26wpct", "52wpct", "12mVolN",
       "expenseRatio" >>

\* The ratios of fund k with the value under key absent, null, the text "NA"
\* or the text of a number.
DamagedRatios(k, key, kind) ==
    CASE kind = "absent" -> Without(FundRatios(k), key)
      [] kind = "null"   -> [FundRatios(k) EXCEPT ![key] = None]
      [] kind = "text"   -> [FundRatios(k) EXCEPT ![key] = NA]
      [] kind = "digits" -> [FundRatios(k) EXCEPT ![key] = Str(<< "1", "2" >>)]
      [] kind = "signed" -> [FundRatios(k) EXCEPT ![key] = Str(<< "-", "5" >>)]
      [] kind = "empty"  -> [FundRatios(k) EXCEPT ![key] = Str(<< >>)]

ItemSet ==
    {Stock(FundInfo(k), FundRatios(k)) : k \in {1, 2}}
    \cup {Stock(FundInfo(1), DamagedRatios(1, key, kind)) :
            key \in {RatioKeys[i] : i \in 1..Len(RatioKeys)} \cup {"subindustry"},
            kind \in {"absent", "null"}}
    \cup {Stock(FundInfo(1), DamagedRatios(1, key, "text")) :
            key \in {"mrktCapf", "pr1d", "52wpct", "expenseRatio"}}
    \cup {Stock(FundInfo(1), DamagedRatios(1, "lastPrice", "digits")),
          Stock(FundInfo(1), DamagedRatios(1, "pr1d", "signed")),
          Stock(FundInfo(1), DamagedRatios(1, "expenseRatio", "empty"))}
    \cup {Stock([FundInfo(1) EXCEPT !["name"] = None], FundRatios(1)),
          Stock(Without(FundInfo(1), "name"), FundRatios(1)),
          Stock(Without(FundInfo(1), "name"), DamagedRatios(1, "pr1d", "null")),
          Stock(FundInfo(1), Without(DamagedRatios(1, "mrktCapf", "null"), "4wpct"))}
    \cup {EmptyDict,
          ("stock" :> ("info" :> FundInfo(1))),
          ("stock" :> ("advancedRatios" :> FundRatios(1)))}

ResultSets == UNION {[1..n -> ItemSet] : n \in 0..MaxRows}

\* The state in which the first pressing of the button leaves a session.
InitNorm ==
    /\ etf_data = None
    /\ pc = "request"
    /\ metric = MetricLabels[MetricDefaultIndex + 1]
    /\ top_n = None
    /\ filters = None
    /\ top_df = None
    /\ under_df = None
    /\ shown = None
    /\ it = 0
    /\ requests = << >>
    /\ failed = << >>
    /\ all_data = << >>
    /\ df = None
    /\ server \in ResultSets
    /\ up = TRUE
    /\ flips = 0
    /\ fetches = 1
    /\ moves = 0
    /\ writes = 0

NextNorm ==
    \/ Request
    \/ BuildFrame
    \/ DropMissing
    \/ Rename
    \/ Coerce
    \/ DropUnparsed
    \/ Store

SpecNorm == InitNorm /\ [][NextNorm]_vars

-----------------------------------------------------------------------------
(* The fetch loop alone, from the pressing of the button to the frame of   *)
(* line 66, with an endpoint that may fail or answer at every request.     *)

InitFetch ==
    /\ etf_data = None
    /\ pc = "request"
    /\ metric = MetricLabels[MetricDefaultIndex + 1]
    /\ top_n = None
    /\ filters = None
    /\ top_df = None
    /\ under_df = None
    /\ shown = None
    /\ it = 0
    /\ requests = << >>
    /\ failed = << >>
    /\ all_data = << >>
    /\ df = None
    /\ server = FundList
    /\ up \in BOOLEAN
    /\ flips = Len(Offsets)
    /\ fetches = 1
    /\ moves = 0
    /\ writes = 0

NextFetch ==
    \/ Request
    \/ BuildFrame

SpecFetch == InitFetch /\ [][NextFetch]_vars

-----------------------------------------------------------------------------
(* Whole sessions over an endpoint that holds only the first few funds.    *)

\* How many funds the endpoint holds in SpecSession.
SessionSizes == {0, 1, 4}

InitSession ==
    /\ etf_data = Absent
    /\ pc = "new"
    /\ metric = MetricLabels[MetricDefaultIndex + 1]
    /\ top_n = None
    /\ filters = None
    /\ top_df = None
    /\ under_df = None
    /\ shown = None
    /\ it = 0
    /\ requests = << >>
    /\ failed = << >>
    /\ all_data = << >>
    /\ df = None
    /\ server \in {SubSeq(FundList, 1, n) : n \in SessionSizes}
    /\ up \in BOOLEAN
    /\ flips = MaxFlips
    /\ fetches = 0
    /\ moves = 0
    /\ writes = 0

SpecSession == InitSession /\ [][Next]_vars

-----------------------------------------------------------------------------
(* The views alone: runs of the script on a table that a fetch has just    *)
(* returned, in which the first pages of the endpoint answered and the     *)
(* later ones failed.                                                      *)

\* How many pages answered.
ViewPages == {1, 5, 8, 14}

InitViews ==
    /\ etf_data = None
    /\ pc = "return"
    /\ metric = MetricLabels[MetricDefaultIndex + 1]
    /\ top_n = None
    /\ filters = None
    /\ top_df = None
    /\ under_df = None
    /\ shown = None
    /\ it = Len(Offsets)
    /\ requests = Offsets
    /\ server = FundList
    /\ \E k \in ViewPages :
         /\ failed = SubSeq(Offsets, k + 1, Len(Offsets))
         /\ all_data = [i \in 1..Min2(k * count, Len(FundList)) |-> ExtractRow(FundList[i])]
    /\ df = dropna(CoerceNumeric(RenameColumns(dropna(DataFrame(all_data)))))
    /\ up = (failed = << >>)
    /\ flips = IF failed = << >> THEN MaxFlips ELSE MaxFlips - 1
    /\ fetches = 1
    /\ moves = 0
    /\ writes = 0

NextViews ==
    \/ Store
    \/ SelectMetric
    \/ MoveTopN
    \/ MoveFilter

SpecViews == InitViews /\ [][NextViews]_vars

-----------------------------------------------------------------------------
(* Properties of the fetch loop.                                           *)

IsTable(x) == x \notin {Absent, None}
Range(s) == {s[i] : i \in 1..Len(s)}
NoRepeat(s) == \A i, j \in 1..Len(s) : i < j => s[i] # s[j]

\* The loop of the latest fetch cycle has run out of offsets.
LoopOver == fetches > 0 /\ pc # "request"

\* ceil(total / pageSize)
CeilDiv(total, pageSize) ==
    CHOOSE n \in 0..total : (n - 1) * pageSize < total /\ total <= n * pageSize

\* For every total and every page size of at least 1, range(0, total, pageSize)
\* is 0, pageSize, 2 * pageSize, ..., all below total, and has
\* ceil(total / pageSize) elements.
RangeIsCeil ==
    \A total \in 0..MaxTotal : \A pageSize \in 1..MaxPageSize :
        LET offsets == range(0, total, pageSize)
        IN  /\ Len(offsets) = CeilDiv(total, pageSize)
            /\ \A i \in 1..Len(offsets) :
                   offsets[i] = (i - 1) * pageSize /\ offsets[i] < total

\* C1: for every total and every page size of at least 1, the offsets are
\* 0, pageSize, 2 * pageSize, ..., all of them below total, and there are
\* ceil(total / pageSize) of them; the requests of a fetch are made at these
\* offsets in this order, none skipped or repeated, and a finished loop has
\* made all of them: 14 requests, the last at offset 260.
C1_PageRequests ==
    /\ RangeIsCeil
    /\ \A i \in 1..Len(requests) :
         requests[i] = (i - 1) * count /\ requests[i] < total_results
    /\ LoopOver =>
         /\ Len(requests) = CeilDiv(total_results, count)
         /\ Len(requests) = 14
         /\ requests[Len(requests)] = 260

\* A fetch has made its last request.
C1_LoopFinished ==
    /\ pc = "dropna"
    /\ Len(requests) = 14
    /\ all_data # << >>

RECURSIVE Accumulated(_)
\* The rows of the pages at the first n requested offsets, the failed ones
\* left out.
Accumulated(n) ==
    IF n = 0 THEN << >>
    ELSE LET page == ServerPage(server, requests[n])
         IN  Accumulated(n - 1) \o
                (IF requests[n] \in Range(failed) THEN << >>
                 ELSE [i \in 1..Len(page) |-> ExtractRow(page[i])])

\* C2: a failed page adds no rows and is not requested again, and the loop
\* goes on: whatever pages fail, a finished loop has requested the same
\* offsets as a loop without failures, each once, and the rows gathered are
\* those of all the pages that succeeded, in order.
C2_ContinuesAfterFailure ==
    /\ NoRepeat(requests)
    /\ NoRepeat(failed)
    /\ Range(failed) \subseteq Range(requests)
    /\ all_data = Accumulated(Len(requests))
    /\ LoopOver => requests = [i \in 1..14 |-> (i - 1) * count]

\* A loop has finished in which a page failed and a later page gave rows.
C2_FailureThenRows ==
    /\ pc = "dropna"
    /\ failed # << >>
    /\ \E i \in 1..Len(requests) :
         /\ requests[i] > failed[1]
         /\ requests[i] \notin Range(failed)
         /\ ServerPage(server, requests[i]) # << >>
    /\ Len(all_data) >= count

\* C3: no fetch cycle ends in an unhandled error, whatever the pages' outcomes.
C3_NothingFatal == pc # "raised"

-----------------------------------------------------------------------------
(* Properties of the normalization.                                        *)

\* The table a fetch cycle has produced: returned, then stored.
Result == IF IsTable(etf_data) THEN etf_data ELSE df
HasResult == pc = "return" \/ IsTable(etf_data)

\* C4: in the table that normalization gives, every row has a number in each
\* of the eight numeric columns; after the coercion a cell of these columns
\* is a number or missing.
C4_NumericColumns ==
    /\ HasResult =>
         \A k \in 1..Len(numeric_cols) :
            /\ HasColumn(Result, numeric_cols[k])
            /\ \A i \in 1..Len(Result.rows) :
                 IsNum(Result.rows[i].v[ColPos(Result, numeric_cols[k])])
    /\ pc = "dropna2" =>
         \A k \in 1..Len(numeric_cols) : \A i \in 1..Len(df.rows) :
            df.rows[i].v[ColPos(df, numeric_cols[k])].t \in {"num", "nan"}

\* A table is stored with a row whose raw record had a number as text, beside
\* a raw record that was dropped.
C4_TextCoerced ==
    /\ IsTable(etf_data)
    /\ Len(etf_data.rows) < Len(all_data)
    /\ \E i \in 1..Len(etf_data.rows) : \E c \in 3..Len(RowKeys) :
         all_data[etf_data.rows[i].idx + 1][c].t = "str"

\* A text that reads as an integer.
NumericText(s) ==
    LET body == IF s # << >> /\ s[1] = "-" THEN Tail(s) ELSE s
    IN  /\ body # << >>
        /\ \A i \in 1..Len(body) :
             body[i] \in {"0", "1", "2", "3", "4", "5", "6", "7", "8", "9"}

\* What a raw dict holds under a key.
FieldIs(d, key) ==
    IF key \notin DOMAIN d THEN "absent"
    ELSE IF d[key] = None THEN "null"
    ELSE IF d[key].t = "num" THEN "number"
    ELSE IF NumericText(d[key].s) THEN "number" ELSE "text"

RawRatios(item) == Get(Get(item, "stock", EmptyDict), "advancedRatios", EmptyDict)
RawInfo(item) == Get(Get(item, "stock", EmptyDict), "info", EmptyDict)
NumericFields(item) == {FieldIs(RawRatios(item), RatioKeys[i]) : i \in 1..Len(RatioKeys)}
TextFields(item) == {FieldIs(RawInfo(item), "name"), FieldIs(RawRatios(item), "subindustry")}
BadNumeric(item) == NumericFields(item) # {"number"}
HasNull(item) == "null" \in NumericFields(item) \cup TextFields(item)

\* C5: a raw record with a numeric field absent, null or not numeric is not
\* in the table.  With a null numeric field it is gone after the first
\* dropna; with no null field it is still there after the first dropna, has
\* a missing cell after the coercion and is gone after the second dropna.
\* Normalizing the table again gives the same table.
C5_TwoPassDrop ==
    /\ \A i \in 1..Len(server) :
         LET item == server[i]
             label == i - 1
         IN  /\ (HasResult /\ BadNumeric(item)) => label \notin Range(Labels(Result))
             /\ (pc \in {"rename", "coerce", "dropna2", "return"}
                    /\ "null" \in NumericFields(item))
                  => label \notin Range(Labels(df))
             /\ (pc \in {"rename", "coerce", "dropna2"}
                    /\ BadNumeric(item) /\ ~HasNull(item))
                  => label \in Range(Labels(df))
             /\ (pc = "dropna2" /\ BadNumeric(item) /\ ~HasNull(item))
                  => \E p \in 1..Len(df.rows) :
                        /\ df.rows[p].idx = label
                        /\ \E c \in 3..Len(RowKeys) : df.rows[p].v[c] = NaN
    /\ HasResult =>
         dropna(CoerceNumeric(RenameColumns(dropna(Result)))) = Result

\* After the coercion: the first of two raw records lacks a numeric field and
\* is in the frame with a missing cell, the second had a null and is gone.
C5_SecondPassPending ==
    /\ pc = "dropna2"
    /\ Len(server) = 2
    /\ "absent" \in NumericFields(server[1])
    /\ ~HasNull(server[1])
    /\ "null" \in NumericFields(server[2])
    /\ Labels(df) = << 0 >>
    /\ \E c \in 3..Len(RowKeys) : df.rows[1].v[c] = NaN

\* An extracted row that is to stay: none of its ten fields is null and its
\* eight numeric fields are numbers or read as numbers.
Qualifies(row) ==
    /\ \A c \in 1..Len(row) : row[c] # None
    /\ \A c \in 3..Len(row) :
         row[c].t = "num" \/ (row[c].t = "str" /\ NumericText(row[c].s))

\* C10: the table holds, in the order of all_data and with repetitions, just
\* the rows of all_data that have no null among their ten fields and numbers
\* in their eight numeric fields; names and sub-sectors are as extracted and
\* the numeric cells are numbers.  A record with a null name is not in the
\* table; a record without a name, valid otherwise, is in it with the name "".
C10_ExactSubsequence ==
    HasResult =>
      LET kept == {i \in 1..Len(all_data) : Qualifies(all_data[i])}
          rows == Result.rows
      IN  /\ Len(rows) = Cardinality(kept)
          /\ \A p \in 1..Len(rows) : rows[p].idx + 1 \in kept
          /\ \A p, q \in 1..Len(rows) : p < q => rows[p].idx < rows[q].idx
          /\ \A p \in 1..Len(rows) :
                LET raw == all_data[rows[p].idx + 1]
                IN  /\ rows[p].v[1] = raw[1]
                    /\ rows[p].v[2] = raw[2]
                    /\ \A c \in 3..Len(raw) :
                         /\ IsNum(rows[p].v[c])
                         /\ IsNum(raw[c]) => rows[p].v[c] = raw[c]
          /\ \A i \in 1..Len(server) :
                /\ "null" \in TextFields(server[i])
                     => (i - 1) \notin Range(Labels(Result))
                /\ ("null" \notin TextFields(server[i]) /\ ~BadNumeric(server[i]))
                     => (i - 1) \in Range(Labels(Result))

\* A table is stored that has the first of two valid records, which has no
\* name, under the name "", and lacks the second, whose name is null.
C10_NullNameDropped ==
    /\ IsTable(etf_data)
    /\ Len(server) = 2
    /\ ~BadNumeric(server[1])
    /\ ~BadNumeric(server[2])
    /\ FieldIs(RawInfo(server[1]), "name") = "absent"
    /\ FieldIs(RawInfo(server[2]), "name") = "null"
    /\ Labels(etf_data) = << 0 >>
    /\ etf_data.rows[1].v[1] = Str(<< >>)

-----------------------------------------------------------------------------
(* Properties of the session and of the views.                             *)

\* The positions of a run that is inside fetch_etf_data or about to store.
FetchPcs == {"request", "dropna", "rename", "coerce", "dropna2", "return"}

\* C6: the stored table is written once in every fetch cycle, by the fetch,
\* when the fetch and the normalization are over, and as a whole; no other
\* step changes it, and the views show rows of the stored table only.
C6_WrittenOncePerCycle ==
    [][/\ (etf_data # Absent /\ etf_data' # etf_data)
            => (pc = "return" /\ writes = 0 /\ etf_data' = df)
       /\ (pc \in FetchPcs /\ pc' \notin FetchPcs) => writes' = 1
       /\ pc' = "rendered"
            => Range(top_df') \cup Range(under_df') \subseteq Range(Labels(etf_data'))
      ]_vars

\* C7: as long as no table is stored, a run ends at the prompt to fetch: no
\* metric is chosen and no N, view or filter is computed or shown.  A stored
\* table never gives way to None.
C7_BlockedUntilStored ==
    [][/\ ~IsTable(etf_data')
            => /\ pc' # "rendered"
               /\ metric' = metric
               /\ top_n' = None /\ filters' = None
               /\ top_df' = None /\ under_df' = None /\ shown' = None
       /\ (~IsTable(etf_data) /\ pc \notin FetchPcs) => pc' \in {"stopped", "request"}
       /\ IsTable(etf_data) => IsTable(etf_data')
      ]_vars

\* A second fetch cycle has ended in an error and the table of the first is
\* still stored.
C7_TableOutlivesFailure ==
    /\ IsTable(etf_data)
    /\ fetches = 2
    /\ pc = "raised"

\* The value of the active metric in the row of the stored table labelled l.
MetricAt(l) ==
    LET c == ColPos(etf_data, metric_map(metric))
        p == CHOOSE p \in 1..Len(etf_data.rows) : etf_data.rows[p].idx = l
    IN  etf_data.rows[p].v[c].n

\* C8: N is between 10 and the size of the table; the top view has exactly N
\* rows of the table, none of them below a row that is not in it, and the
\* bottom view has exactly N rows, none of them above a row that is not in it.
C8_ExactlyNExtremal ==
    pc = "rendered" =>
      LET N == top_n.value
          all == Range(Labels(etf_data))
      IN  /\ SliderMin <= N
          /\ N <= Len(etf_data.rows)
          /\ Len(top_df) = N /\ NoRepeat(top_df) /\ Range(top_df) \subseteq all
          /\ Len(under_df) = N /\ NoRepeat(under_df) /\ Range(under_df) \subseteq all
          /\ \A a \in Range(top_df) : \A b \in all \ Range(top_df) :
                MetricAt(a) >= MetricAt(b)
          /\ \A a \in Range(under_df) : \A b \in all \ Range(under_df) :
                MetricAt(a) <= MetricAt(b)

\* C9: with more than 2N rows in the table no row is in both views, equal
\* metric values or not.
C9_NoSharedRow ==
    (pc = "rendered" /\ Len(etf_data.rows) > 2 * top_n.value)
        => Range(top_df) \cap Range(under_df) = {}

\* The number of rows of the stored table whose active metric has the value x.
RowsWithMetric(x) ==
    LET c == ColPos(etf_data, metric_map(metric))
    IN  Cardinality({p \in 1..Len(etf_data.rows) : etf_data.rows[p].v[c].n = x})

\* C9, amended: a row is in both views only if all but at most 2N - 2 rows of
\* the table have its metric value; with more than 2N rows that takes rows of
\* equal metric value, so a table of distinct values has no shared row.
C9_SharedOnlyWhenTied ==
    pc = "rendered" =>
      LET need == Len(etf_data.rows) - 2 * top_n.value + 2
      IN  \/ need <= 1
          \/ \A l \in Range(top_df) \cap Range(under_df) :
                RowsWithMetric(MetricAt(l)) >= need

\* The table has more than 2N rows and a row of it is in both views.
C9_SharedRowSeen ==
    /\ pc = "rendered"
    /\ Len(etf_data.rows) > 2 * top_n.value
    /\ Range(top_df) \cap Range(under_df) # {}

====
